---- MODULE Spec2Model ----
(***************************************************************************)
(* celestial-echo: a bot that answers mentions with the round-trip light   *)
(* time to a celestial body.  One invocation (run) ingests the new         *)
(* mentions (process_new_mentions) and then sweeps the events whose        *)
(* deadline has passed (send_replies).                                     *)
(*                                                                         *)
(* Numbers.  An f64 is modelled as an exact decimal with six fractional   *)
(* digits (see F64); time stamps are milliseconds since 2020-01-01         *)
(* 00:00:00 UTC.  Strings are TLA+ strings, handled character by           *)
(* character.  Option<T> is a sequence of length 0 (None) or 1 (Some).     *)
(***************************************************************************)
EXTENDS Integers, Sequences, FiniteSets, TLC

Micro == 1000000

(***************************************************************************)
(* str::trim, str::lines, str::split_whitespace                            *)
(***************************************************************************)
IsSpace(c) == c \in {" ", "\t", "\n", "\r"}

IsDigit(c) == c \in {"0", "1", "2", "3", "4", "5", "6", "7", "8", "9"}

At(s, i) == SubSeq(s, i, i)

RECURSIVE TrimStart(_)
TrimStart(s) ==
    IF Len(s) > 0 /\ IsSpace(At(s, 1)) THEN TrimStart(SubSeq(s, 2, Len(s))) ELSE s

RECURSIVE TrimEnd(_)
TrimEnd(s) ==
    IF Len(s) > 0 /\ IsSpace(At(s, Len(s))) THEN TrimEnd(SubSeq(s, 1, Len(s) - 1)) ELSE s

Trim(s) == TrimEnd(TrimStart(s))

\* Does the text of s at position k start the thing looked for?
Hit(s, k, what) ==
    CASE what = "newline"   -> At(s, k) = "\n"
      [] what = "space"     -> IsSpace(At(s, k))
      [] what = "dot"       -> At(s, k) = "."
      [] what = "digit"     -> IsDigit(At(s, k))
      [] what = "no digit"  -> ~IsDigit(At(s, k))
      [] what = "no blank"  -> At(s, k) # " "
      [] what = "stop"      -> \/ At(s, k) = "("
                               \/ (k < Len(s) /\ SubSeq(s, k, k + 1) = "  ")

\* The first position in lo..hi of s where Hit holds, hi + 1 when there is
\* none.
First(s, lo, hi, what) ==
    IF \E k \in lo..hi : Hit(s, k, what)
    THEN CHOOSE k \in lo..hi :
            Hit(s, k, what) /\ \A j \in lo..(k - 1) : ~Hit(s, j, what)
    ELSE hi + 1

FindNewline(s, i) == First(s, i, Len(s), "newline")

StripCr(l) ==
    IF Len(l) > 0 /\ At(l, Len(l)) = "\r" THEN SubSeq(l, 1, Len(l) - 1) ELSE l

\* str::lines: split at "\n" (or "\r\n"); a final line ending adds no line.
RECURSIVE Lines(_)
Lines(s) ==
    IF Len(s) = 0 THEN <<>>
    ELSE LET n == FindNewline(s, 1)
         IN  <<StripCr(SubSeq(s, 1, n - 1))>> \o Lines(SubSeq(s, n + 1, Len(s)))

FindSpace(s, i) == First(s, i, Len(s), "space")

RECURSIVE SplitWhitespace(_)
SplitWhitespace(s) ==
    LET t == TrimStart(s)
    IN  IF Len(t) = 0 THEN <<>>
        ELSE LET n == FindSpace(t, 1)
             IN  <<SubSeq(t, 1, n - 1)>> \o SplitWhitespace(SubSeq(t, n, Len(t)))

StartsWith(s, p) == Len(s) >= Len(p) /\ SubSeq(s, 1, Len(p)) = p

(***************************************************************************)
(* Numbers                                                                 *)
(***************************************************************************)
DigitVal(c) ==
    CASE c = "0" -> 0 [] c = "1" -> 1 [] c = "2" -> 2 [] c = "3" -> 3
      [] c = "4" -> 4 [] c = "5" -> 5 [] c = "6" -> 6 [] c = "7" -> 7
      [] c = "8" -> 8 [] c = "9" -> 9

RECURSIVE AllDigits(_)
AllDigits(s) == Len(s) = 0 \/ (IsDigit(At(s, 1)) /\ AllDigits(Tail(s)))

RECURSIVE DigitsVal(_)
DigitsVal(s) ==
    IF Len(s) = 0 THEN 0
    ELSE 10 * DigitsVal(SubSeq(s, 1, Len(s) - 1)) + DigitVal(At(s, Len(s)))

FindDot(s, i) == First(s, i, Len(s), "dot")

RECURSIVE Pow10(_)
Pow10(n) == IF n = 0 THEN 1 ELSE 10 * Pow10(n - 1)

\* An f64 is modelled as an exact decimal in sign-magnitude form:
\* [neg, s, u] stands for (-1)^neg * (s + u / Micro) with 0 <= u < Micro.
\* Values stay far below 2^31, so a saturating cast never saturates upward.
F64(neg, s, u) == [neg |-> neg, s |-> s, u |-> u]

\* str::parse::<f64> on plain decimal notation: [sign] digits [. digits] with
\* at least one digit.  The model's inputs carry at most six fractional
\* digits, so the parsed value is exact.
ParseF64(tok) ==
    LET neg  == Len(tok) > 0 /\ At(tok, 1) = "-"
        sgn  == Len(tok) > 0 /\ At(tok, 1) \in {"-", "+"}
        body == IF sgn THEN Tail(tok) ELSE tok
        dot  == FindDot(body, 1)
        ip   == SubSeq(body, 1, dot - 1)
        fp   == SubSeq(body, dot + 1, Len(body))
        ok   == /\ AllDigits(ip) /\ AllDigits(fp)
                /\ Len(ip) + Len(fp) > 0
                /\ Len(fp) <= 6
    IN  IF ok
        THEN [ok |-> TRUE,
              val |-> F64(neg, DigitsVal(ip), DigitsVal(fp) * Pow10(6 - Len(fp)))]
        ELSE [ok |-> FALSE, val |-> F64(FALSE, 0, 0)]

\* x * k for a small positive integer k.
F64Mul(x, k) ==
    F64(x.neg, x.s * k + (x.u * k) \div Micro, (x.u * k) % Micro)

\* Mutant: x <= k.
F64Le(x, k) ==
    (x.neg /\ (x.s > 0 \/ x.u > 0)) \/ x.s < k \/ (x.s = k /\ x.u = 0)

\* x < k for a positive integer k.
F64Lt(x, k) == (x.neg /\ (x.s > 0 \/ x.u > 0)) \/ x.s < k

\* "x as u32": truncation toward zero, a negative value saturating to 0.
AsU32(x) == IF x.neg THEN 0 ELSE x.s

\* Mutant: the product is rounded to the nearest integer.
AsI64Millis_nearest(x) ==
    LET mag == x.s * 1000 + (x.u + 500) \div 1000
    IN  IF x.neg THEN 0 - mag ELSE mag

\* "(x * 1000.0) as i64": truncation toward zero.
AsI64Millis(x) ==
    LET mag == x.s * 1000 + x.u \div 1000
    IN  IF x.neg THEN 0 - mag ELSE mag

\* "x % 60.0": the remainder has the sign of the dividend.
F64Rem(x, k) == F64(x.neg, x.s % k, x.u)

Pad(s, n) == IF Len(s) >= n THEN s ELSE SubSeq("000000", 1, n - Len(s)) \o s

\* format!("{:.n}", x), 0 <= n <= 6.  The decimal expansion is rounded to n
\* places, a tie going to the even neighbour.
FmtFixed(x, n) ==
    LET unit == Pow10(6 - n)
        q    == x.u \div unit
        rem  == x.u % unit
        up   == 2 * rem > unit \/ (2 * rem = unit /\ q % 2 = 1)
        r    == IF up THEN q + 1 ELSE q
        ip   == x.s + r \div Pow10(n)
        fp   == r % Pow10(n)
    IN  (IF x.neg THEN "-" ELSE "") \o ToString(ip)
          \o (IF n = 0 THEN "" ELSE "." \o Pad(ToString(fp), n))

Pad2(n) == Pad(ToString(n), 2)

\* NaiveDateTime::format("%Y-%m-%d %H:%M:%S") for a time of 2020-01-01.
FormatTime(ms) ==
    LET s == ms \div 1000
    IN  "2020-01-01 " \o Pad2(s \div 3600) \o ":" \o Pad2((s \div 60) % 60)
          \o ":" \o Pad2(s % 60)

(***************************************************************************)
(* build_event                                                             *)
(***************************************************************************)
None == <<>>

Some(v) == <<v>>

BotName == "@celestial_echo"

TweetLimit == 280

Sorry ==
    "Sorry, I don't recognize that location.\n\nConsult JPL HORIZONS for valid options: https://ssd.jpl.nasa.gov/?horizons\n"

FindDigit(s, i) == First(s, i, Len(s), "digit")

SkipDigits(s, i) == First(s, i, Len(s), "no digit")

SkipSpaces(s, i) == First(s, i, Len(s), "no blank")

\* First position at or after i where "(" or two spaces start, else Len(s) + 1.
FindStop(s, i) == First(s, i, Len(s), "stop")

\* Regex::captures of " *(-?\d+) *(.*?)(\(|  |$)": the leftmost match.  The
\* pattern is not anchored, so the match starts at the first digit of the line
\* (with the "-" directly before it, if any); the label is the shortest text
\* after the digits and their trailing spaces that is followed by "(", by two
\* spaces or by the end of the line.  A line without a digit has no match.
captures(line) ==
    LET d   == FindDigit(line, 1)
        e   == SkipDigits(line, d)
        neg == d > 1 /\ d <= Len(line) /\ At(line, d - 1) = "-"
        t   == SkipSpaces(line, e)
        j   == FindStop(line, t)
    IN  IF d > Len(line) THEN None
        ELSE Some([id    |-> (IF neg THEN "-" ELSE "") \o SubSeq(line, d, e - 1),
                   label |-> SubSeq(line, t, j - 1)])

\* Mutant: the length test forgets the entry to be appended.
RECURSIVE pick_a_number_late(_, _)
pick_a_number_late(lines, message) ==
    IF lines = <<>> THEN [ok |-> TRUE, message |-> message]
    ELSE LET cap == captures(Head(lines))
         IN  IF cap = None THEN [ok |-> FALSE, message |-> Head(lines)]
             ELSE LET line == cap[1].id \o ": " \o Trim(cap[1].label) \o "\n"
                  IN  pick_a_number_late(Tail(lines),
                         IF Len(message) <= TweetLimit
                         THEN message \o line ELSE message)

\* Mutant: a line without a match is passed over.
RECURSIVE pick_a_number_lenient(_, _)
pick_a_number_lenient(lines, message) ==
    IF lines = <<>> THEN [ok |-> TRUE, message |-> message]
    ELSE LET cap == captures(Head(lines))
         IN  IF cap = None THEN pick_a_number_lenient(Tail(lines), message)
             ELSE LET line == cap[1].id \o ": " \o Trim(cap[1].label) \o "\n"
                  IN  pick_a_number_lenient(Tail(lines),
                         IF Len(message) + Len(line) <= TweetLimit
                         THEN message \o line ELSE message)

\* The loop of lines 184-196: Err at the first line without a match, else the
\* message with every entry that still fits appended.  String::len counts
\* bytes; the answers of the model are ASCII, one byte a character.
RECURSIVE pick_a_number(_, _)
pick_a_number(lines, message) ==
    IF lines = <<>> THEN [ok |-> TRUE, message |-> message]
    ELSE LET cap == captures(Head(lines))
         IN  IF cap = None THEN [ok |-> FALSE, message |-> Head(lines)]
             ELSE LET line == cap[1].id \o ": " \o Trim(cap[1].label) \o "\n"
                  IN  pick_a_number(Tail(lines),
                         IF Len(message) + Len(line) <= TweetLimit
                         THEN message \o line ELSE message)

\* tweet.text trimmed, with a leading bot name stripped.
body_of(text) ==
    LET body == Trim(text)
    IN  IF StartsWith(body, BotName)
        THEN Trim(SubSeq(body, Len(BotName) + 1, Len(body)))
        ELSE body

\* Mutant: the error is tweeted back.
Err_tweeted(why) == [kind |-> "Reply", draft |-> why]

Err(why) == [kind |-> "Err", err |-> why]

\* build_event for a tweet, given what the "expect horizons" process did:
\* out = None when it could not be started, else Some([code, stdout]) with
\* code = None for a process ended by a signal.
build_event(tweet, out) ==
    IF out = None THEN Err("spawn")
    ELSE LET code == out[1].code
             text == out[1].stdout
         IN
         IF code = Some(0) THEN
            LET lines == Lines(Trim(text))
                toks  == IF lines = <<>> THEN <<>> ELSE SplitWhitespace(lines[1])
                dist  == IF Len(toks) < 3 THEN [ok |-> FALSE] ELSE ParseF64(toks[3])
                travel_secs == F64Mul(F64Mul(dist.val, 60), 2)
            IN  IF lines = <<>> THEN Err("HORIZON response missing distance line")
                ELSE IF Len(toks) < 3 THEN Err("Missing distance field")
                ELSE IF ~dist.ok THEN Err("invalid float literal")
                ELSE [kind  |-> "RecordForm",
                      event |-> [tweet_id       |-> tweet.id,
                                 celestial_body |-> body_of(tweet.text),
                                 replied        |-> FALSE,
                                 deadline       |-> tweet.created_at
                                                      + AsI64Millis(travel_secs),
                                 round_trip     |-> travel_secs]]
         ELSE IF code = Some(1) THEN [kind |-> "Reply", draft |-> Sorry]
         ELSE IF code = Some(2) THEN
            LET r == pick_a_number(Lines(Trim(text)), "Pick a number:\n")
            IN  IF r.ok THEN [kind |-> "Reply", draft |-> r.message]
                ELSE Err("No match found")
         ELSE Err("Unrecognized exit code")

(***************************************************************************)
(* send_replies: the text of the reply, lines 216-231                      *)
(***************************************************************************)
\* Mutant: below ten minutes the seconds are cut to an integer as well.
msg_whole_seconds(round_trip) ==
    LET min == (AsU32(round_trip) \div 60) % 60
        sec == F64Rem(round_trip, 60)
    IN  IF F64Lt(round_trip, 2) THEN
            "Round trip time: " \o FmtFixed(round_trip, 4) \o "s"
        ELSE IF F64Lt(round_trip, 10) THEN
            "Round trip time: " \o FmtFixed(round_trip, 3) \o "s"
        ELSE IF F64Lt(round_trip, 60) THEN
            "Round trip time: " \o FmtFixed(round_trip, 2) \o "s"
        ELSE
            "Round trip time: " \o ToString(min) \o "m " \o ToString(AsU32(sec)) \o "s"

msg(round_trip) ==
    LET hr  == AsU32(round_trip) \div 3600
        min == (AsU32(round_trip) \div 60) % 60
        sec == F64Rem(round_trip, 60)
    IN  IF F64Lt(round_trip, 2) THEN
            "Round trip time: " \o FmtFixed(round_trip, 4) \o "s"
        ELSE IF F64Lt(round_trip, 10) THEN
            "Round trip time: " \o FmtFixed(round_trip, 3) \o "s"
        ELSE IF F64Lt(round_trip, 60) THEN
            "Round trip time: " \o FmtFixed(round_trip, 2) \o "s"
        ELSE IF min < 10 THEN
            "Round trip time: " \o ToString(min) \o "m " \o FmtFixed(sec, 1) \o "s"
        ELSE IF min < 60 THEN
            "Round trip time: " \o ToString(min) \o "m " \o ToString(AsU32(sec)) \o "s"
        ELSE
            "Round trip time: " \o ToString(hr) \o "h " \o ToString(min) \o "m"

(***************************************************************************)
(* Bounds of the model                                                     *)
(***************************************************************************)
MaxMentions == 2

MaxRuns == 2

MaxFaults == 1

PageSize == 2

\* The instants the clock is observed at (milliseconds of 2020-01-01): the
\* start, the deadline of a 4.5 light-minute echo asked for at the start, and
\* the end of the day.
Clock == {0, 540000, 86399000}

\* What users ask, with what HORIZONS answers to it: a distance, a list of
\* candidates, an unknown location, and a crash of the lookup script.
Asks ==
    { [text |-> "@celestial_echo mars",
       out  |-> [code |-> Some(0), stdout |-> "foo bar 4.5\n"]],
      [text |-> " @celestial_echo  mars? ",
       out  |-> [code |-> Some(2), stdout |-> "1 Mars (\n2 Mars II  \n"]],
      [text |-> "@celestial_echo home",
       out  |-> [code |-> Some(1), stdout |-> ""]],
      [text |-> "hello @celestial_echo",
       out  |-> [code |-> Some(7), stdout |-> "spawn id exp4 not open\n"]] }

(***************************************************************************)
(* State                                                                   *)
(***************************************************************************)
VARIABLES
    now,        \* the wall clock
    mentions,   \* the bot's mentions timeline, oldest first
    posts,      \* the statuses the bot has posted, oldest first
    events,     \* table events (without created_at, updated_at: never read)
    ignored,    \* table ignored
    pc,         \* where the invocation is: "idle" when no process runs
    max_id,     \* process_new_mentions: the high-water mark read at its start
    min_id,     \* the timeline cursor: the oldest id of the last page
    feed,       \* the tweets of the current page not yet processed
    cutoff,     \* send_replies: Utc::now() of the query
    unreplied,  \* send_replies: the loaded events not yet handled
    swept,      \* history: the last sweep, see load
    runs,       \* invocations started
    faults,     \* failures of the environment so far
    failed,     \* history: the failures of the sweep, [id, what] for the
                \* event and "post" or "update"
    last        \* what the last step did

vars == <<now, mentions, posts, events, ignored, pc, max_id, min_id, feed,
          cutoff, unreplied, swept, runs, faults, failed, last>>

\* History of the sweeps: how the last sweep stands ("none" when there was
\* none or it met a failure or was cut short, "running", "clean" once it
\* ended with every post and update done), the clock and the number of rows
\* it saw, and whether it repeats a clean sweep with no deadline newly
\* elapsed since.
NoSweep == [state |-> "none", cutoff |-> 0, rows |-> 0, again |-> FALSE]

Did(op, id, res) == [op |-> op, id |-> id, res |-> res]

Init ==
    /\ now = 0
    /\ mentions = <<>>
    /\ posts = <<>>
    /\ events = <<>>
    /\ ignored = <<>>
    /\ pc = "idle"
    /\ max_id = None
    /\ min_id = None
    /\ feed = <<>>
    /\ cutoff = 0
    /\ unreplied = <<>>
    /\ swept = NoSweep
    /\ runs = 0
    /\ faults = 0
    /\ failed = {}
    /\ last = Did("init", 0, "ok")

(***************************************************************************)
(* The environment                                                         *)
(***************************************************************************)
\* The process looks at the world in two places only: at the timeline when
\* it fetches a page and at the clock when it loads the due events.  A step
\* of the environment commutes with every other step of the process, so the
\* environment moves while no process runs or right before such a look (the
\* first fetch of a run is as good as reached from "idle").
Fetching == pc = "mentions" /\ feed = <<>>

\* Time passes.
Tick == /\ pc \in {"idle", "send_replies"}
        /\ \E t \in Clock : t > now /\ now' = t
        /\ UNCHANGED <<mentions, posts, events, ignored, pc, max_id, min_id,
                       feed, cutoff, unreplied, swept, runs, faults, failed,
                       last>>

\* Somebody mentions the bot; tweet ids grow with time, created_at has whole
\* seconds.
Mention ==
    /\ pc = "idle" \/ (Fetching /\ min_id # None)
    /\ Len(mentions) < MaxMentions
    /\ \E ask \in Asks :
         mentions' = Append(mentions,
                        [id         |-> Len(mentions) + 1,
                         created_at |-> (now \div 1000) * 1000,
                         text       |-> ask.text,
                         out        |-> ask.out])
    /\ UNCHANGED <<now, posts, events, ignored, pc, max_id, min_id, feed,
                   cutoff, unreplied, swept, runs, faults, failed, last>>

\* n more failures of the environment (store, network, process table).
Fail(n) == faults + n <= MaxFaults /\ faults' = faults + n

Bit(ok) == IF ok THEN 0 ELSE 1

\* The process ends (with status 0, with status 1 after main printed the
\* error, or killed from outside); its memory is gone.
Exit ==
    /\ pc' = "idle"
    /\ max_id' = None
    /\ min_id' = None
    /\ feed' = <<>>
    /\ cutoff' = 0
    /\ unreplied' = <<>>

(***************************************************************************)
(* run, process_new_mentions                                               *)
(***************************************************************************)
RECURSIVE MaxTweetId(_)
MaxTweetId(rows) ==
    IF rows = <<>> THEN 0
    ELSE LET m == MaxTweetId(Tail(rows))
         IN  IF Head(rows).tweet_id > m THEN Head(rows).tweet_id ELSE m

\* Mutant: the high-water mark is the tweet of the last row.
get_max_id_last_row ==
    IF events = <<>> THEN None ELSE Some(events[Len(events)].tweet_id)

\* SELECT max(tweet_id) FROM events
get_max_id == IF events = <<>> THEN None ELSE Some(MaxTweetId(events))

\* run up to the first fetch: the connection, the token, the reactor and the
\* high-water mark; any failure (~ok) ends the process.
started(ok) ==
    /\ pc = "idle"
    /\ IF ok
       THEN /\ pc' = "mentions"
            /\ max_id' = get_max_id
            /\ last' = Did("run", 0, "ok")
            /\ UNCHANGED <<min_id, feed, cutoff, unreplied>>
       ELSE /\ Exit
            /\ last' = Did("run", 0, "err")
    /\ UNCHANGED <<now, mentions, posts, events, ignored, swept, failed>>

run ==
    /\ runs < MaxRuns
    /\ runs' = runs + 1
    /\ \E ok \in BOOLEAN : Fail(Bit(ok)) /\ started(ok)

RECURSIVE Newest(_, _)
Newest(tweets, n) ==
    IF n = 0 \/ tweets = <<>> THEN <<>>
    ELSE <<tweets[Len(tweets)]>> \o Newest(SubSeq(tweets, 1, Len(tweets) - 1), n - 1)

\* Timeline::older(since_id): the PageSize newest mentions above since_id
\* and, after the first page, below the oldest tweet already returned; newest
\* first.
older(since_id) ==
    LET InPage(t) == /\ since_id = None \/ t.id > since_id[1]
                     /\ min_id = None \/ t.id <= min_id[1] - 1
    IN  Newest(SelectSeq(mentions, InPage), PageSize)

\* Line 74-78: fetch the next page; an error ends the process, an empty page
\* ends process_new_mentions.
fetched(ok) ==
    /\ Fetching
    /\ IF ~ok
       THEN /\ Exit
            /\ last' = Did("fetch", 0, "err")
       ELSE LET page == older(max_id)
            IN  /\ max_id' = max_id
                /\ cutoff' = cutoff
                /\ unreplied' = unreplied
                /\ feed' = page
                /\ IF page = <<>>
                   THEN /\ pc' = "send_replies"
                        /\ min_id' = min_id
                        /\ last' = Did("fetch", 0, "empty")
                   ELSE /\ pc' = "mentions"
                        /\ min_id' = Some(page[Len(page)].id)
                        /\ last' = Did("fetch", page[1].id, "page")
    /\ UNCHANGED <<now, mentions, posts, events, ignored, swept, runs, failed>>

fetch == \E ok \in BOOLEAN : Fail(Bit(ok)) /\ fetched(ok)

\* INSERT INTO events: the store numbers the rows.
insert_into_events(form) ==
    Append(events, [id             |-> Len(events) + 1,
                    tweet_id       |-> form.tweet_id,
                    celestial_body |-> form.celestial_body,
                    replied        |-> form.replied,
                    deadline       |-> form.deadline,
                    round_trip     |-> form.round_trip])

\* Mutant: the filter compares the row's own id.
is_tweet_ignored_by_row_id(t_id) == \E i \in DOMAIN ignored : ignored[i].id = t_id

\* SELECT ... FROM ignored WHERE tweet_id = t_id LIMIT 1 is not empty
is_tweet_ignored(t_id) == \E i \in DOMAIN ignored : ignored[i].tweet_id = t_id

\* Mutant: the table holds the last ignored tweet only.
ignore_tweet_only(t_id) == <<[id |-> 1, tweet_id |-> t_id]>>

\* INSERT INTO ignored
ignore_tweet(t_id) ==
    Append(ignored, [id |-> Len(ignored) + 1, tweet_id |-> t_id])

\* Mutant: a lookup that failed counts as "not ignored".
unwrap_or_false(result, default) == IF result.ok THEN result.val ELSE FALSE

\* Result::unwrap_or of line 93: the value of an Ok, the default for an Err.
unwrap_or(result, default) == IF result.ok THEN result.val ELSE default

\* What a pass of the loop is remembered for: a failed lookup first.
Outcome(looked, res) == IF looked THEN res ELSE "lookup failed"

Post(by, tweet_id, status) ==
    Append(posts, [by |-> by, in_reply_to |-> tweet_id, status |-> status])

\* Mutant: a failure breaks out of the for loop.
rest_unless_failed(page, res) ==
    IF res \in {"error", "insert failed", "lookup failed", "reply failed",
                "ignore failed"}
    THEN <<>> ELSE Tail(page)

\* The for loop of line 81: what is left of the page after a pass that ended
\* with res; every arm of the match falls through to the next tweet.
rest(page, res) == Tail(page)

\* One pass of the loop body, lines 81-108, for the first tweet of the feed:
\* spawned, inserted, looked, sent and marked say which calls succeed.
mention ==
    /\ pc = "mentions"
    /\ feed # <<>>
    /\ \E spawned \in BOOLEAN :
         \E tweet \in {Head(feed)} :
         \E resp \in {build_event(tweet, IF spawned THEN Some(tweet.out) ELSE None)} :
         \E inserted, looked, sent, marked \in BOOLEAN :
             IF resp.kind = "RecordForm" THEN
                 /\ looked /\ sent /\ marked
                 /\ Fail(Bit(spawned) + Bit(inserted))
                 /\ events' = IF inserted THEN insert_into_events(resp.event)
                              ELSE events
                 /\ last' = Did("mention", tweet.id,
                                IF inserted THEN "recorded" ELSE "insert failed")
                 /\ UNCHANGED <<ignored, posts>>
             ELSE IF resp.kind = "Reply" THEN
                 /\ inserted
                 /\ Fail(Bit(spawned) + Bit(looked) + Bit(sent) + Bit(marked))
                 /\ IF unwrap_or([ok  |-> looked,
                                  val |-> is_tweet_ignored(tweet.id)], TRUE) THEN
                        /\ sent /\ marked
                        /\ last' = Did("mention", tweet.id,
                                       Outcome(looked, "skipped"))
                        /\ UNCHANGED <<events, ignored, posts>>
                    ELSE IF ~sent THEN
                        /\ marked
                        /\ last' = Did("mention", tweet.id,
                                       Outcome(looked, "reply failed"))
                        /\ UNCHANGED <<events, ignored, posts>>
                    ELSE
                        /\ posts' = Post("process_new_mentions", tweet.id, resp.draft)
                        /\ ignored' = IF marked THEN ignore_tweet(tweet.id)
                                      ELSE ignored
                        /\ last' = Did("mention", tweet.id,
                                       Outcome(looked, IF marked THEN "replied"
                                                       ELSE "ignore failed"))
                        /\ UNCHANGED events
             ELSE
                 /\ inserted /\ looked /\ sent /\ marked
                 /\ Fail(Bit(spawned))
                 /\ last' = Did("mention", tweet.id, "error")
                 /\ UNCHANGED <<events, ignored, posts>>
    /\ feed' = rest(feed, last'.res)
    /\ UNCHANGED <<now, mentions, pc, max_id, min_id, cutoff, unreplied, swept,
                   runs, failed>>

(***************************************************************************)
(* send_replies                                                            *)
(***************************************************************************)
\* Mutants of the filter: a deadline that is reached counts as passed; the
\* replied flag is not looked at.
due_reached(e, t) == e.replied = FALSE /\ e.deadline <= t

due_any(e, t) == e.deadline < t

\* The filter of line 212 at clock t.
due(e, t) == e.replied = FALSE /\ e.deadline < t

\* History: does a sweep at clock t find a deadline elapsed that the last
\* sweep, at swept.cutoff, did not?
NewlyElapsed(t) ==
    \E i \in DOMAIN events :
        /\ events[i].deadline < t
        /\ i > swept.rows \/ ~(events[i].deadline < swept.cutoff)

\* Lines 208-213: the events that are unreplied and past their deadline.
load ==
    /\ pc = "send_replies"
    /\ \E ok \in BOOLEAN :
         /\ Fail(Bit(ok))
         /\ IF ok
            THEN LET Due(e) == due(e, now)
                 IN  /\ pc' = "unreplied"
                     /\ cutoff' = now
                     /\ unreplied' = SelectSeq(events, Due)
                     /\ swept' = [state  |-> "running",
                                  cutoff |-> now,
                                  rows   |-> Len(events),
                                  again  |-> swept.state = "clean"
                                               /\ ~NewlyElapsed(now)]
                     /\ last' = Did("load", 0, "ok")
                     /\ UNCHANGED <<max_id, min_id, feed>>
            ELSE /\ Exit
                 /\ swept' = NoSweep
                 /\ last' = Did("load", 0, "err")
    /\ UNCHANGED <<now, mentions, posts, events, ignored, runs, failed>>

\* Mutant: the update has no WHERE clause.
set_replied_all(event_id) ==
    [i \in DOMAIN events |-> [events[i] EXCEPT !.replied = TRUE]]

\* Mutant: the WHERE clause compares the tweet.
set_replied_by_tweet_id(event_id) ==
    [i \in DOMAIN events |->
        IF events[i].tweet_id = event_id THEN [events[i] EXCEPT !.replied = TRUE]
        ELSE events[i]]

\* UPDATE events SET replied = true WHERE id = event_id
set_replied(event_id) ==
    [i \in DOMAIN events |->
        IF events[i].id = event_id THEN [events[i] EXCEPT !.replied = TRUE]
        ELSE events[i]]

\* One pass of the loop body, lines 214-244, for the first loaded event.
reply ==
    /\ pc = "unreplied"
    /\ unreplied # <<>>
    /\ \E sent, updated \in BOOLEAN :
         \E event \in {Head(unreplied)} :
             /\ Fail(Bit(sent) + Bit(updated))
             /\ swept' = IF sent /\ updated THEN swept ELSE NoSweep
             /\ failed' = IF ~sent
                          THEN failed \cup {[id |-> event.id, what |-> "post"]}
                          ELSE IF ~updated
                          THEN failed \cup {[id |-> event.id, what |-> "update"]}
                          ELSE failed
             /\ IF ~sent THEN
                    /\ updated
                    /\ unreplied' = Tail(unreplied)
                    /\ last' = Did("reply", event.id, "reply failed")
                    /\ UNCHANGED <<posts, events, pc, max_id, min_id, feed, cutoff>>
                ELSE
                    /\ posts' = Post("send_replies", event.tweet_id,
                                     msg(event.round_trip))
                    /\ IF updated THEN
                           /\ events' = set_replied(event.id)
                           /\ unreplied' = Tail(unreplied)
                           /\ last' = Did("reply", event.id, "replied")
                           /\ UNCHANGED <<pc, max_id, min_id, feed, cutoff>>
                       ELSE
                           /\ Exit
                           /\ last' = Did("reply", event.id, "update failed")
                           /\ UNCHANGED events
    /\ UNCHANGED <<now, mentions, ignored, runs>>

\* Line 245 and the return of run and main.
done ==
    /\ pc = "unreplied"
    /\ unreplied = <<>>
    /\ Exit
    /\ swept' = IF swept.state = "running"
                THEN [state |-> "clean", cutoff |-> swept.cutoff,
                      rows |-> swept.rows, again |-> FALSE]
                ELSE NoSweep
    /\ last' = Did("done", 0, "ok")
    /\ UNCHANGED <<now, mentions, posts, events, ignored, runs, faults, failed>>

\* The process is terminated from outside, wherever it is.
kill ==
    /\ pc # "idle"
    /\ Exit
    /\ swept' = IF pc = "unreplied" THEN NoSweep ELSE swept
    /\ last' = Did("kill", 0, "killed")
    /\ UNCHANGED <<now, mentions, posts, events, ignored, runs, faults, failed>>

Next ==
    \/ Tick
    \/ Mention
    \/ run
    \/ fetch
    \/ mention
    \/ load
    \/ reply
    \/ done
    \/ kill

Spec == Init /\ [][Next]_vars

(***************************************************************************)
(* One invocation of the same program on a fixed timeline of three         *)
(* mentions: the oldest of an unknown location, the next one resolving to  *)
(* 4.5 light-minutes, and the newest one, to which HORIZONS gives any of a *)
(* wide range of answers.                                                  *)
(***************************************************************************)
MaxLines == 3

RECURSIVE Rep(_, _)
Rep(c, n) ==
    IF n = 0 THEN ""
    ELSE IF n % 2 = 0 THEN Rep(c \o c, n \div 2)
    ELSE c \o Rep(c, n - 1)

\* Lines of a candidate list: as HORIZONS prints them, oddly spaced, a long
\* one of which two overflow a tweet, and lines that are no candidate at all.
CandidateLines ==
    { "1 Mars (",
      "  -2 Mars II  x",
      "499 Phobos Barycenter",
      "32 " \o Rep("y", 140),
      "Multiple major-bodies match string",
      "" }

RECURSIVE Unlines(_)
Unlines(ls) == IF ls = <<>> THEN "" ELSE Head(ls) \o "\n" \o Unlines(Tail(ls))

CandidateLists ==
    UNION { { Unlines(ls) : ls \in [1..n -> CandidateLines] } : n \in 0..MaxLines }

\* First lines of an answer with exit status 0: distances with up to six
\* decimals around every change of the reply's format, and broken answers.
DistanceLines ==
    { "foo bar 4.5\n",
      "foo bar 0.000005\n",
      "foo bar 0.000013\n",
      "foo bar 0.008362\n",
      "foo bar 0.016666\n",
      "foo bar 0.016667\n",
      "foo bar 0.069375\n",
      "foo bar 0.083333\n",
      "foo bar 0.083334\n",
      "foo bar 0.404417\n",
      "foo bar 0.499999\n",
      "foo bar 0.5\n",
      "foo bar 0.526667\n",
      "foo bar 4.999999\n",
      "foo bar 5\n",
      "foo bar 5.8425\n",
      "foo bar 29.999999\n",
      "foo bar 30\n",
      "foo bar 60.5\n",
      "foo bar 391\n",
      "foo bar 0\n",
      "foo bar -1\n",
      "foo bar -0.000005\n",
      "\n \n  x\ty +4.5 \tkm\nsecond line\n",
      "a b .5",
      "a b 4.",
      "",
      " \n",
      "foo bar\n",
      "foo bar baz\n",
      "foo bar 1.2.3\n",
      "foo\n4.5 4.5 4.5\n" }

Answers ==
    { [code |-> Some(0), stdout |-> t] : t \in DistanceLines }
      \cup { [code |-> Some(2), stdout |-> t] : t \in CandidateLists }
      \cup { [code |-> c, stdout |-> t] :
               c \in {Some(1), Some(7), Some(255), None}, t \in {"", "1 Mars (\n"} }

InitAsk ==
    /\ now = 0
    /\ \E out \in Answers :
         mentions = << [id |-> 1, created_at |-> 0,
                        text |-> "@celestial_echo home",
                        out |-> [code |-> Some(1), stdout |-> ""]],
                       [id |-> 2, created_at |-> 0,
                        text |-> "@celestial_echo mars",
                        out |-> [code |-> Some(0), stdout |-> "foo bar 4.5\n"]],
                       [id |-> 3, created_at |-> 0,
                        text |-> "@celestial_echo there", out |-> out] >>
    /\ posts = <<>>
    /\ events = <<>>
    /\ ignored = <<>>
    /\ pc = "idle"
    /\ max_id = None
    /\ min_id = None
    /\ feed = <<>>
    /\ cutoff = 0
    /\ unreplied = <<>>
    /\ swept = NoSweep
    /\ runs = MaxRuns - 1
    /\ faults = 0
    /\ failed = {}
    /\ last = Did("init", 0, "ok")

NextAsk ==
    \/ Tick
    \/ run
    \/ fetch
    \/ mention
    \/ load
    \/ reply
    \/ done

SpecAsk == InitAsk /\ [][NextAsk]_vars

(***************************************************************************)
(* The program invoked again and again, as by a scheduler, after an        *)
(* invocation recorded the two mentions of the timeline, which resolve to  *)
(* 0.5 and 4.5 light-minutes.  Failures of the store and of the posts come *)
(* to an end (there are at most MaxFaults of them); the mention fetch may  *)
(* fail any number of times.  Every invocation that is due starts, and a   *)
(* process that runs takes its next step.                                  *)
(***************************************************************************)
LiveMentions ==
    << [id |-> 1, created_at |-> 0,
        text |-> "@celestial_echo mars",
        out |-> [code |-> Some(0), stdout |-> "foo bar 4.5\n"]],
       [id |-> 2, created_at |-> 0,
        text |-> "@celestial_echo moon",
        out |-> [code |-> Some(0), stdout |-> "foo bar 0.5\n"]] >>

\* The row of events for a mention, as lines 82-86 insert it.
RowFor(tweet, n) ==
    LET form == build_event(tweet, Some(tweet.out)).event
    IN  [id             |-> n,
         tweet_id       |-> form.tweet_id,
         celestial_body |-> form.celestial_body,
         replied        |-> form.replied,
         deadline       |-> form.deadline,
         round_trip     |-> form.round_trip]

InitLive ==
    /\ now = 0
    /\ mentions = LiveMentions
    /\ posts = <<>>
    /\ events = <<RowFor(LiveMentions[2], 1), RowFor(LiveMentions[1], 2)>>
    /\ ignored = <<>>
    /\ pc = "idle"
    /\ max_id = None
    /\ min_id = None
    /\ feed = <<>>
    /\ cutoff = 0
    /\ unreplied = <<>>
    /\ swept = NoSweep
    /\ runs = 0
    /\ faults = 0
    /\ failed = {}
    /\ last = Did("init", 0, "ok")

\* One more invocation, not counted.
run_again == UNCHANGED runs /\ \E ok \in BOOLEAN : Fail(Bit(ok)) /\ started(ok)

\* The fetch with failures that are not counted.
fetch_or_fail == UNCHANGED faults /\ \E ok \in BOOLEAN : fetched(ok)

NextLive ==
    \/ Tick
    \/ run_again
    \/ fetch_or_fail
    \/ load
    \/ reply
    \/ done

SpecLive ==
    /\ InitLive
    /\ [][NextLive]_vars
    /\ WF_vars(run_again)
    /\ WF_vars(fetch_or_fail)
    /\ WF_vars(load)
    /\ WF_vars(reply)
    /\ WF_vars(done)

(***************************************************************************)
(* One invocation of the program on a store that holds one event, recorded *)
(* by an earlier invocation and past its deadline, with any round trip of  *)
(* a range of values below one hour on and around the changes of the       *)
(* reply's format.                                                         *)
(***************************************************************************)
RoundTrips ==
    { F64(FALSE, s, u) :
        s \in {0, 1, 2, 3, 9, 10, 11, 59, 60, 61, 119, 120, 599, 600, 601,
               659, 3540, 3599},
        u \in {0, 1, 49999, 50000, 500000, 999949, 999999} }

InitTiers ==
    /\ now = 86399000
    /\ mentions = << [id |-> 1, created_at |-> 0,
                      text |-> "@celestial_echo mars",
                      out |-> [code |-> Some(0), stdout |-> "foo bar 4.5\n"]] >>
    /\ posts = <<>>
    /\ \E round_trip \in RoundTrips :
         events = << [id             |-> 1,
                      tweet_id       |-> 1,
                      celestial_body |-> "mars",
                      replied        |-> FALSE,
                      deadline       |-> AsI64Millis(round_trip),
                      round_trip     |-> round_trip] >>
    /\ ignored = <<>>
    /\ pc = "idle"
    /\ max_id = None
    /\ min_id = None
    /\ feed = <<>>
    /\ cutoff = 0
    /\ unreplied = <<>>
    /\ swept = NoSweep
    /\ runs = MaxRuns - 1
    /\ faults = 0
    /\ failed = {}
    /\ last = Did("init", 0, "ok")

NextTiers ==
    \/ run
    \/ fetch
    \/ load
    \/ reply
    \/ done

SpecTiers == InitTiers /\ [][NextTiers]_vars

(***************************************************************************)
(* Properties                                                              *)
(***************************************************************************)
Replies(by, t_id) ==
    { i \in DOMAIN posts : posts[i].by = by /\ posts[i].in_reply_to = t_id }

\* C1: the replied flag of an event goes from false to true only in a step
\* of the sweep that handles this event, whose deadline is strictly before the
\* clock the sweep read, and that posts the reply to the event's tweet; a row
\* that is replied stays in the table and stays replied.
RepliedOnlyAfterDeadlineAndPost ==
    [][\A i \in DOMAIN events :
          /\ i \in DOMAIN events'
          /\ events[i].replied => events'[i].replied
          /\ (~events[i].replied /\ events'[i].replied) =>
                /\ pc = "unreplied"
                /\ Head(unreplied).id = events[i].id
                /\ events[i].deadline < cutoff
                /\ cutoff <= now
                /\ posts' = Append(posts, [by          |-> "send_replies",
                                           in_reply_to |-> events[i].tweet_id,
                                           status      |-> msg(events[i].round_trip)])]_vars

\* C1 witness: the sweep has just marked an event replied.
SomeEventReplied ==
    /\ last.op = "reply" /\ last.res = "replied"
    /\ \E i \in DOMAIN events : events[i].id = last.id /\ events[i].replied

\* C2: while a row of ignored names a tweet, no step posts a disambiguation
\* or rejection reply to that tweet.
NoReplyOnceIgnored ==
    [][\A i \in DOMAIN ignored :
          Replies("process_new_mentions", ignored[i].tweet_id)'
            = Replies("process_new_mentions", ignored[i].tweet_id)]_vars

\* C2 witness: a later invocation has fetched an ignored tweet again, got
\* exit status 1 or 2 for it again and skipped it, the lookup having worked.
IgnoredTweetSkippedAgain ==
    /\ last.op = "mention" /\ last.res = "skipped"
    /\ faults = 0
    /\ runs = 2
    /\ is_tweet_ignored(last.id)
    /\ Cardinality(Replies("process_new_mentions", last.id)) = 1

\* A mention HORIZONS resolves to a distance.
Resolvable(tweet) == build_event(tweet, Some(tweet.out)).kind = "RecordForm"

Recorded(t_id) == \E i \in DOMAIN events : events[i].tweet_id = t_id

\* C3: with no failure of the environment other than the process being
\* terminated, whenever no process runs every resolvable mention without an
\* event is still above the high-water mark, so that the next invocation
\* fetches it.
TerminationLosesNoMention ==
    (pc = "idle" /\ faults = 0) =>
        \A k \in DOMAIN mentions :
            (Resolvable(mentions[k]) /\ ~Recorded(mentions[k].id)) =>
                (get_max_id = None \/ mentions[k].id > get_max_id[1])

\* C4: a failed update of replied in the sweep does not end the sweep: the
\* events loaded after this one are still handled.
UpdateFailureKeepsSweeping ==
    [][(pc = "unreplied" /\ Len(unreplied) > 1
          /\ last'.op = "reply" /\ last'.res = "update failed") =>
       (pc' = "unreplied" /\ unreplied' = Tail(unreplied))]_vars

\* C5: a reply of the sweep has the form "{h}h {m}m", with h the whole
\* hours and m the whole minutes beyond them, exactly when the round trip of
\* its event is one hour or more.
HoursFormatFromOneHour ==
    \A i \in DOMAIN posts : \A j \in DOMAIN events :
        (posts[i].by = "send_replies" /\ events[j].tweet_id = posts[i].in_reply_to) =>
            LET r == events[j].round_trip
            IN  (~F64Lt(r, 3600)) <=>
                   posts[i].status =
                      "Round trip time: " \o ToString(r.s \div 3600) \o "h "
                         \o ToString((r.s \div 60) % 60) \o "m"

\* The mentions of the scenario of C6: created at 2020-01-01 00:00:00 and
\* answered with exit status 0 and "foo bar 4.5\n".
IsEchoScenario(tweet) ==
    /\ tweet.created_at = 0
    /\ tweet.out = [code |-> Some(0), stdout |-> "foo bar 4.5\n"]

EchoScenario(status) ==
    \A k \in DOMAIN mentions :
        IsEchoScenario(mentions[k]) =>
            /\ \A j \in DOMAIN events :
                 events[j].tweet_id = mentions[k].id =>
                    /\ events[j].round_trip = F64(FALSE, 540, 0)
                    /\ FormatTime(events[j].deadline) = "2020-01-01 00:09:00"
            /\ \A i \in Replies("send_replies", mentions[k].id) :
                 posts[i].status = status

\* C6 as claimed: the event has a round trip of 540.0 s and the deadline
\* 2020-01-01 00:09:00, and the reply is "Round trip time: 9m 0s".
EchoScenarioWholeSeconds == EchoScenario("Round trip time: 9m 0s")

\* C6 as amended: the event has a round trip of 540.0 s and the deadline
\* 2020-01-01 00:09:00, and the reply is "Round trip time: 9m 0.0s".
EchoScenarioTenthSeconds == EchoScenario("Round trip time: 9m 0.0s")

\* C6 witness: the sweep has replied to a mention of the scenario.
EchoScenarioReplied ==
    \E k \in DOMAIN mentions :
        /\ IsEchoScenario(mentions[k])
        /\ Replies("send_replies", mentions[k].id) # {}
        /\ Recorded(mentions[k].id)

\* The distance in the answer to a resolvable mention, as line 156-160 reads
\* it: the third field of the first line.
Distance(tweet) ==
    ParseF64(SplitWhitespace(Lines(Trim(tweet.out.stdout))[1])[3]).val

NearestMillis(x) ==
    LET mag == (x.s * 1000) + ((x.u + 500) \div 1000)
    IN  IF x.neg THEN 0 - mag ELSE mag

WholeMillis(x) ==
    LET mag == (x.s * 1000) + (x.u \div 1000)
    IN  IF x.neg THEN 0 - mag ELSE mag

DeadlineIs(Millis(_)) ==
    \A k \in DOMAIN mentions : \A j \in DOMAIN events :
        events[j].tweet_id = mentions[k].id =>
            LET delay == F64Mul(Distance(mentions[k]), 120)
            IN  /\ events[j].round_trip = delay
                /\ events[j].deadline = mentions[k].created_at + Millis(delay)

\* C7 as claimed: the deadline is the creation time plus d * 120 s rounded to
\* the nearest millisecond, the stored round trip is d * 120 s unrounded.
DeadlineRoundsToNearest == DeadlineIs(NearestMillis)

\* C7 as amended: the deadline is the creation time plus d * 120 s cut to
\* whole milliseconds (rounded toward zero), the stored round trip is
\* d * 120 s unrounded.
DeadlineCutsToMillis == DeadlineIs(WholeMillis)

\* C7 witness: an event whose delay has half a millisecond or more beyond the
\* whole milliseconds.
EventWithSubMillis ==
    \E j \in DOMAIN events : events[j].round_trip.u % 1000 >= 500

\* The entry of the disambiguation message for a candidate line.
Entry(line) ==
    LET cap == captures(line)
    IN  cap[1].id \o ": " \o Trim(cap[1].label) \o "\n"

\* The entries of the lines of an answer that match the pattern, "" for the
\* other lines.
RECURSIVE EntryList(_)
EntryList(lines) ==
    IF lines = <<>> THEN <<>>
    ELSE <<IF captures(Head(lines)) = None THEN "" ELSE Entry(Head(lines))>>
           \o EntryList(Tail(lines))

\* The entries numbered in K, in their order.
RECURSIVE Chosen(_, _, _)
Chosen(entries, K, n) ==
    IF n > Len(entries) THEN ""
    ELSE (IF n \in K THEN entries[n] ELSE "") \o Chosen(entries, K, n + 1)

Header == "Pick a number:\n"

Ambiguous(tweet) == tweet.out.code = Some(2)

\* C8: a reply to a mention with exit status 2 has at most 280 characters,
\* starts with "Pick a number:\n" and goes on with nothing but whole entries
\* "<id>: <label>\n" of lines of the answer that match, in their order (so an
\* entry that would make it longer than 280 is left out, never cut).
DisambiguationFits ==
    \A k \in DOMAIN mentions : \A i \in Replies("process_new_mentions", mentions[k].id) :
        Ambiguous(mentions[k]) =>
            \E entries \in {EntryList(Lines(Trim(mentions[k].out.stdout)))} :
                /\ Len(posts[i].status) <= 280
                /\ StartsWith(posts[i].status, Header)
                /\ \E K \in SUBSET { n \in DOMAIN entries : entries[n] # "" } :
                     posts[i].status = Header \o Chosen(entries, K, 1)

\* C8 witness: a reply that leaves out the second of three candidates, too
\* long to fit, and has the first and the third.
LongCandidateSkipped ==
    \E k \in DOMAIN mentions : \E i \in Replies("process_new_mentions", mentions[k].id) :
        /\ Ambiguous(mentions[k])
        /\ \E entries \in {EntryList(Lines(Trim(mentions[k].out.stdout)))} :
            /\ Len(entries) = 3
            /\ Len(Header \o entries[1] \o entries[2]) > 280
            /\ posts[i].status = Header \o entries[1] \o entries[3]
            /\ entries[3] # ""

\* Some line of the trimmed answer does not match the candidate pattern.
HasBadLine(tweet) ==
    \E lines \in {Lines(Trim(tweet.out.stdout))} :
        \E n \in DOMAIN lines : captures(lines[n]) = None

\* C9: for a mention with exit status 2 and a line that does not match,
\* nothing is ever posted in reply and no row of ignored or events names it.
BadLineFailsWhole ==
    \A k \in DOMAIN mentions :
        Ambiguous(mentions[k]) =>
            \/ /\ Replies("process_new_mentions", mentions[k].id) = {}
               /\ Replies("send_replies", mentions[k].id) = {}
               /\ ~is_tweet_ignored(mentions[k].id)
               /\ ~Recorded(mentions[k].id)
            \/ ~HasBadLine(mentions[k])

\* C9 witness: the loop has handled, with the lookup script run, a mention
\* whose answer has two candidate lines and then a line that does not match.
BadLineAfterCandidates ==
    \E k \in DOMAIN mentions :
        LET lines == Lines(Trim(mentions[k].out.stdout))
        IN  /\ Ambiguous(mentions[k])
            /\ Len(lines) = 3
            /\ captures(lines[1]) # None
            /\ captures(lines[2]) # None
            /\ captures(lines[3]) = None
            /\ last = Did("mention", mentions[k].id, "error")
            /\ faults = 0

\* C10: a sweep that follows a clean sweep, with no deadline newly elapsed
\* since, posts nothing and changes no row.
SweepAgainIsNoOp ==
    [][(pc = "unreplied" /\ swept.again) =>
       (posts' = posts /\ events' = events /\ ignored' = ignored)]_vars

\* C10 witness: such a sweep ends, the sweep before it having replied.
SweptAgain ==
    /\ swept.again
    /\ pc = "unreplied"
    /\ \E i \in DOMAIN posts : posts[i].by = "send_replies"
    /\ \E j \in DOMAIN events : ~events[j].replied

\* C11: no two rows of events have the same tweet_id.
EventPerTweetAtMostOnce ==
    \A i, j \in DOMAIN events :
        events[i].tweet_id = events[j].tweet_id => i = j

\* C11 witness: a second invocation, started with an event in the table, has
\* recorded a mention that came in later, and the first mention is still on
\* the timeline below the high-water mark it read.
RecordedAboveHighWater ==
    /\ runs = 2
    /\ Len(events) = 2
    /\ max_id # None
    /\ last.op = "mention" /\ last.res = "recorded"
    /\ \E k \in DOMAIN mentions : mentions[k].id <= max_id[1]

\* The events a reply post of the sweep failed for.
PostFailed == {f.id : f \in {g \in failed : g.what = "post"}}

Row(event_id) == CHOOSE i \in DOMAIN events : events[i].id = event_id

Loaded(event_id) == \E j \in DOMAIN unreplied : unreplied[j].id = event_id

\* C12: right after a reply post of the sweep failed the sweep is still
\* going and the event is not replied; whenever a later sweep has loaded its
\* batch, every event a post once failed for is in it unless it was replied
\* meanwhile, no sweep ends cleanly with such an event not replied, and such
\* an event is replied only once a later post went out.
PostFailureRetriedNextSweep ==
    /\ (last.op = "reply" /\ last.res = "reply failed") =>
          /\ pc = "unreplied"
          /\ last.id \in PostFailed
          /\ ~events[Row(last.id)].replied
    /\ \A id \in PostFailed :
          /\ (last.op = "load" /\ last.res = "ok") =>
                (events[Row(id)].replied \/ Loaded(id))
          /\ (last.op = "done" /\ swept.state = "clean") =>
                events[Row(id)].replied
          /\ events[Row(id)].replied =>
                Replies("send_replies", events[Row(id)].tweet_id) # {}

\* C12 witness: the post for the first of two loaded events failed, the
\* second was replied to, and the next invocation's sweep loaded the first
\* again and has replied to it.
FailedPostRetried ==
    /\ runs = 2
    /\ last.op = "reply" /\ last.res = "replied"
    /\ last.id \in PostFailed
    /\ \A i \in DOMAIN events : events[i].replied
    /\ Len(events) = 2
    /\ last.id = 1

\* C13: every step leaves the rows of ignored as they are; a step that adds
\* to the table adds one row, for the tweet the loop is at, and posts in the
\* same pass of the loop a disambiguation or rejection reply to that tweet;
\* a pass whose post fails adds no row and posts nothing.
IgnoredOnlyAfterReplyPosted ==
    [][/\ \A i \in DOMAIN ignored :
             i \in DOMAIN ignored' /\ ignored'[i] = ignored[i]
       /\ ignored' # ignored =>
             /\ pc = "mentions" /\ feed # <<>>
             /\ Len(ignored') = Len(ignored) + 1
             /\ ignored'[Len(ignored')].tweet_id = Head(feed).id
             /\ Len(posts') = Len(posts) + 1
             /\ posts'[Len(posts')].by = "process_new_mentions"
             /\ posts'[Len(posts')].in_reply_to = Head(feed).id
             /\ Head(feed).out.code \in {Some(1), Some(2)}
       /\ (last'.op = "mention" /\ last'.res = "reply failed") =>
             (ignored' = ignored /\ posts' = posts)]_vars

\* C13 witness: of two mentions to reply to at once, the first got its reply
\* and its row, and the post for the second has just failed.
ReplyFailedAfterIgnoredRow ==
    /\ last.op = "mention" /\ last.res = "reply failed"
    /\ ignored # <<>>
    /\ ~is_tweet_ignored(last.id)
    /\ Replies("process_new_mentions", last.id) = {}

\* The tweets of the page of the running invocation that come after tweet
\* t_id, newest first.
RestOfPage(t_id) ==
    LET Rest(t) == t.id < t_id /\ (min_id = None \/ t.id >= min_id[1])
    IN  Newest(SelectSeq(mentions, Rest), PageSize)

\* C14: right after the lookup in ignored failed for a mention of the one
\* invocation, nothing was posted in reply to it, no row of ignored or events
\* names it, and the loop stands at the next mention of its page.
LookupFailureSkipsReply ==
    (last.op = "mention" /\ last.res = "lookup failed") =>
        /\ Replies("process_new_mentions", last.id) = {}
        /\ ~is_tweet_ignored(last.id)
        /\ ~Recorded(last.id)
        /\ pc = "mentions"
        /\ feed = RestOfPage(last.id)

\* C14 witness: the lookup failed for a mention with a list of two candidates
\* and the older mention of the page is still to be handled.
LookupFailedBeforeNext ==
    /\ last.op = "mention" /\ last.res = "lookup failed"
    /\ \E k \in DOMAIN mentions :
         /\ mentions[k].id = last.id
         /\ mentions[k].out = [code |-> Some(2), stdout |-> "1 Mars (\n499 Phobos Barycenter\n"]
    /\ feed # <<>>
    /\ posts = <<>>

\* The lookup ended with an exit status other than 0, 1 and 2, or with none.
OtherExit(tweet) == tweet.out.code \notin {Some(0), Some(1), Some(2)}

\* C15: for a mention whose lookup ends with an exit status other than 0, 1
\* and 2 or with none, nothing is ever posted in reply and no row of events
\* or ignored names it; right after the loop handled it, the loop stands at
\* the next mention of the page.
OtherExitFailsMention ==
    \A k \in DOMAIN mentions :
        OtherExit(mentions[k]) =>
            /\ Replies("process_new_mentions", mentions[k].id) = {}
            /\ Replies("send_replies", mentions[k].id) = {}
            /\ ~is_tweet_ignored(mentions[k].id)
            /\ ~Recorded(mentions[k].id)
            /\ (last.op = "mention" /\ last.id = mentions[k].id) =>
                  /\ last.res = "error"
                  /\ pc = "mentions"
                  /\ feed = RestOfPage(mentions[k].id)

\* C15 witness: the lookup for the newer mention was ended by a signal, and
\* the loop has gone on to the older mention and recorded it.
RecordedAfterOtherExit ==
    /\ \E k \in DOMAIN mentions :
         /\ mentions[k].out.code = None
         /\ mentions[k].id > last.id
    /\ last.op = "mention" /\ last.res = "recorded"
    /\ faults = 0
    /\ posts = <<>> /\ ignored = <<>> /\ Len(events) = 1

\* C16: an invocation whose mention fetch fails goes on to the sweep: right
\* after the failure, with events unreplied and past their deadline in the
\* table, the process stands at send_replies.
FetchFailureStillSweeps ==
    (/\ last.op = "fetch" /\ last.res = "err"
     /\ \E i \in DOMAIN events : due(events[i], now)) =>
        pc = "send_replies"

Replied(event_id) ==
    \E i \in DOMAIN events : events[i].id = event_id /\ events[i].replied

Elapsed(event_id) ==
    \E i \in DOMAIN events : events[i].id = event_id /\ events[i].deadline < now

\* C17: an event whose deadline has elapsed is eventually replied, and an
\* event that is replied stays so.
EveryEventEventuallyReplied ==
    /\ \A event_id \in 1..2 : Elapsed(event_id) ~> Replied(event_id)
    /\ [][\A i \in DOMAIN events :
             events[i].replied => (i \in DOMAIN events' /\ events'[i].replied)]_vars

\* The outcomes of a pass of the ingestion loop that are failures.
PerMessageFailures ==
    {"error", "insert failed", "lookup failed", "reply failed", "ignore failed"}

\* C18: a pass of the ingestion loop that meets a failure leaves the loop at
\* the next mention of the page, with the cursor where it was; the page
\* fetched after a page is the next older one; and when the fetch finds no
\* page left the process goes on to the sweep, every mention above the
\* high-water mark having been in a page.
PerMessageFailureNeverAborts ==
    [][/\ (last'.op = "mention" /\ last'.res \in PerMessageFailures) =>
             /\ pc = "mentions" /\ feed # <<>>
             /\ last'.id = Head(feed).id
             /\ pc' = "mentions"
             /\ feed' = Tail(feed)
             /\ min_id' = min_id /\ max_id' = max_id
       /\ (last'.op = "fetch" /\ last'.res = "page") =>
             /\ pc' = "mentions"
             /\ feed' = older(max_id)
             /\ \A k \in DOMAIN mentions :
                   (max_id = None \/ mentions[k].id > max_id[1]) =>
                      \/ mentions[k].id < min_id'[1]
                      \/ min_id # None /\ mentions[k].id >= min_id[1]
                      \/ \E n \in DOMAIN feed' : feed'[n] = mentions[k]
       /\ (last'.op = "fetch" /\ last'.res = "empty") =>
             /\ pc' = "send_replies"
             /\ \A k \in DOMAIN mentions :
                   (max_id = None \/ mentions[k].id > max_id[1]) =>
                      (min_id # None /\ mentions[k].id >= min_id[1])]_vars

\* C18 witness: the mention that resolves was not recorded, a failure of its
\* pass; the loop went on to the next page, replied to the oldest mention
\* and marked it, and the process has come to the sweep.
SweepReachedAfterFailure ==
    /\ pc = "send_replies"
    /\ last.op = "fetch" /\ last.res = "empty"
    /\ \E k \in DOMAIN mentions :
         /\ Resolvable(mentions[k]) /\ ~Recorded(mentions[k].id)
         /\ \E j \in DOMAIN mentions :
              /\ mentions[j].id < mentions[k].id
              /\ is_tweet_ignored(mentions[j].id)
              /\ Replies("process_new_mentions", mentions[j].id) # {}
         /\ min_id # None /\ min_id[1] < mentions[k].id

\* r < k for a round trip r >= 0 and a whole number k.
Below(r, k) == r.s < k

\* The reply the table of formats gives for a round trip r, 0 <= r < 3600,
\* each boundary belonging to the upper row.
TierReply(r) ==
    "Round trip time: " \o
       (IF Below(r, 2) THEN FmtFixed(r, 4) \o "s"
        ELSE IF Below(r, 10) THEN FmtFixed(r, 3) \o "s"
        ELSE IF Below(r, 60) THEN FmtFixed(r, 2) \o "s"
        ELSE IF Below(r, 600)
             THEN ToString(r.s \div 60) \o "m "
                    \o FmtFixed(F64(FALSE, r.s % 60, r.u), 1) \o "s"
        ELSE ToString(r.s \div 60) \o "m " \o ToString(r.s % 60) \o "s")

\* C19: the reply of the sweep for an event with a round trip r, 0 <= r <
\* 3600, is the one of the table's row for r: four decimals below 2, three
\* from 2.0 on, two from 10.0 on, "{m}m {s:.1}s" from 60.0 on and "{m}m {s}s"
\* with whole seconds from 600 on.
TierByTable ==
    \A i \in DOMAIN posts : \A j \in DOMAIN events :
        (/\ posts[i].by = "send_replies"
         /\ events[j].tweet_id = posts[i].in_reply_to
         /\ ~events[j].round_trip.neg
         /\ Below(events[j].round_trip, 3600)) =>
            posts[i].status = TierReply(events[j].round_trip)

\* C19 witness: the reply for a round trip of exactly 2.0 s has three
\* decimals.
BoundaryReplied ==
    \E i \in DOMAIN posts :
        /\ events[1].round_trip = F64(FALSE, 2, 0)
        /\ posts[i].by = "send_replies"
        /\ posts[i].status = "Round trip time: 2.000s"
        /\ events[1].replied

\* The events whose update of replied failed after the post.
UpdateFailed == {f.id : f \in {g \in failed : g.what = "update"}}

\* C20: an event none of whose updates of replied failed has exactly one
\* reply of the sweep to its tweet if it is replied, and none if it is not.
RoundTripReplyAtMostOnce ==
    \A j \in DOMAIN events :
        events[j].id \notin UpdateFailed =>
            Cardinality(Replies("send_replies", events[j].tweet_id))
                = IF events[j].replied THEN 1 ELSE 0

\* C20 witness: the sweep of a second invocation has loaded its batch
\* without the event the first invocation replied to, though its deadline is
\* in the past, and the table holds a second event.
RepliedEventNotSelected ==
    /\ runs = 2
    /\ last.op = "load" /\ last.res = "ok"
    /\ Len(events) = 2
    /\ \E j \in DOMAIN events :
         /\ events[j].replied
         /\ events[j].deadline < now
         /\ ~Loaded(events[j].id)
         /\ Cardinality(Replies("send_replies", events[j].tweet_id)) = 1

====
